---- MODULE Spec2Model ----
(***************************************************************************)
(* RWA Sentinel Protocol - AI Legal Core (src/ai-legal-core/main.py).      *)
(*                                                                         *)
(* The audit pipeline of the legal oracle: whitelist gate, EIP-191         *)
(* signature gate, document analysis (OpenAI backed or keyword rule) and   *)
(* assembly of the response.  Strings are sequences of one-character      *)
(* strings, so that lower(), strip(), slicing and substring search are     *)
(* computed and not assumed.                                               *)
(***************************************************************************)
EXTENDS Integers, Sequences, FiniteSets, TLC

(***************************************************************************)
(* Bounds of the model.                                                    *)
(***************************************************************************)
\* a document is the concatenation of at most MaxFragments text fragments
MaxFragments == 2

(***************************************************************************)
(* Python str operations.                                                  *)
(***************************************************************************)
\* absent value (Python None, a missing dict key)
None == "None"

UpperChars == <<"A", "B", "C", "D", "E", "F", "I", "N", "R", "X", "O'">>
LowerChars == <<"a", "b", "c", "d", "e", "f", "i", "n", "r", "x", "o'">>

\* str.lower() on one character; "O'" and "o'" stand for U+00D3 and U+00F3
LowerOf ==
    [c \in {UpperChars[i] : i \in 1..Len(UpperChars)} |->
        LowerChars[CHOOSE i \in 1..Len(UpperChars) : UpperChars[i] = c]]
LowerChar(c) == IF c \in DOMAIN LowerOf THEN LowerOf[c] ELSE c

\* str.lower()
Lower(s) == [i \in 1..Len(s) |-> LowerChar(s[i])]

\* sub in s (substring search)
Contains(s, sub) ==
    \E i \in 1..(Len(s) - Len(sub) + 1) : SubSeq(s, i, i + Len(sub) - 1) = sub

\* the slice as it would be if it kept the whole text
PrefixWhole(s, n) == s

\* s[:n]
Prefix(s, n) == SubSeq(s, 1, IF Len(s) < n THEN Len(s) ELSE n)

\* whitespace characters removed by str.strip()
IsSpace(c) == c \in {" ", "\n", "\t"}

\* str.strip()
Strip(s) ==
    IF \A i \in 1..Len(s) : IsSpace(s[i]) THEN <<>>
    ELSE LET first == CHOOSE i \in 1..Len(s) :
                          /\ ~IsSpace(s[i])
                          /\ \A j \in 1..(i - 1) : IsSpace(s[j])
             last  == CHOOSE i \in 1..Len(s) :
                          /\ ~IsSpace(s[i])
                          /\ \A j \in (i + 1)..Len(s) : IsSpace(s[j])
         IN  SubSeq(s, first, last)

\* concatenation of a sequence of strings
RECURSIVE Concat(_)
Concat(ss) == IF ss = <<>> THEN <<>> ELSE Head(ss) \o Concat(Tail(ss))

\* all sequences over S of length 0..n
SeqsUpTo(S, n) == UNION {[1..k -> S] : k \in 0..n}

(***************************************************************************)
(* Signer identities and the whitelist.                                    *)
(***************************************************************************)
\* Hardhat account 0, in EIP-55 checksum case, as main.py:40 writes it
Account0 == <<"0", "x", "f", "3", "9", "F", "d", "6", "e", "5", "1", "a", "a", "d", "8", "8", "F", "6", "F", "4", "c", "e", "6", "a", "B", "8", "8", "2", "7", "2", "7", "9", "c", "f", "f", "F", "b", "9", "2", "2", "6", "6">>

\* the same identity as a client that lower-cases addresses sends it
Account0Lower == <<"0", "x", "f", "3", "9", "f", "d", "6", "e", "5", "1", "a", "a", "d", "8", "8", "f", "6", "f", "4", "c", "e", "6", "a", "b", "8", "8", "2", "7", "2", "7", "9", "c", "f", "f", "f", "b", "9", "2", "2", "6", "6">>

\* an identity that is not whitelisted (Hardhat account 1)
Account1 == <<"0", "x", "7", "0", "9", "9", "7", "9", "7", "0", "C", "5", "1", "8", "1", "2", "d", "c", "3", "A", "0", "1", "0", "C", "7", "d", "0", "1", "b", "5", "0", "e", "0", "d", "1", "7", "d", "c", "7", "9", "C", "8">>

\* the identity an ECDSA recovery over the wrong message yields: unrelated
\* to every key that signed (Hardhat account 2 stands for it)
UnrelatedAccount == <<"0", "x", "3", "C", "4", "4", "C", "d", "D", "d", "B", "6", "a", "9", "0", "0", "f", "a", "2", "b", "5", "8", "5", "d", "d", "2", "9", "9", "e", "0", "3", "d", "1", "2", "F", "A", "4", "2", "9", "3", "B", "C">>

LEGAL_VALIDATORS_WHITELIST == <<Account0>>

\* the wallet_address values requests carry
Wallets == {Account0, Account0Lower, Account1}

\* the keys that sign requests
Signers == {Account0, Account1}

(***************************************************************************)
(* Documents.                                                              *)
(***************************************************************************)
KeywordRedencion == <<"r", "e", "d", "e", "n", "c", "i", "o'", "n">>
KeywordColateral == <<"c", "o", "l", "a", "t", "e", "r", "a", "l">>

\* pieces of contract text: the keywords in other letter case, a keyword
\* without its accent, and a keyword split over two pieces
Fragments ==
    { <<"R", "E", "D", "E", "N", "C", "I", "O'", "N">>,
      <<"C", "o", "l", "a", "t", "e", "r", "a", "l">>,
      <<"r", "e", "d", "e", "n", "c", "i", "o", "n">>,
      <<"c", "o", "l", "a", "t", "e", "r", "a">>,
      <<"l", " ">> }

\* the document_content values requests carry
Documents == {Concat(fs) : fs \in SeqsUpTo(Fragments, MaxFragments)}

\* str.encode("utf-8") of one character
Utf8Char(c) ==
    CASE c = " "  -> <<32>>
      [] c = "C"  -> <<67>>
      [] c = "D"  -> <<68>>
      [] c = "E"  -> <<69>>
      [] c = "I"  -> <<73>>
      [] c = "N"  -> <<78>>
      [] c = "R"  -> <<82>>
      [] c = "a"  -> <<97>>
      [] c = "c"  -> <<99>>
      [] c = "d"  -> <<100>>
      [] c = "e"  -> <<101>>
      [] c = "i"  -> <<105>>
      [] c = "l"  -> <<108>>
      [] c = "n"  -> <<110>>
      [] c = "o"  -> <<111>>
      [] c = "r"  -> <<114>>
      [] c = "t"  -> <<116>>
      [] c = "O'" -> <<195, 147>>
      [] c = "o'" -> <<195, 179>>

\* str.encode("utf-8"): a run of one-byte characters is encoded at once,
\* then the first character of several bytes, then the rest of the text
RECURSIVE Utf8(_)
Utf8(s) ==
    LET OneByte(i) == Len(Utf8Char(s[i])) = 1
    IN  IF \A i \in 1..Len(s) : OneByte(i)
        THEN [i \in 1..Len(s) |-> Utf8Char(s[i])[1]]
        ELSE LET k == CHOOSE i \in 1..Len(s) :
                          ~OneByte(i) /\ \A j \in 1..(i - 1) : OneByte(j)
             IN  [i \in 1..(k - 1) |-> Utf8Char(s[i])[1]]
                     \o Utf8Char(s[k])
                     \o Utf8(SubSeq(s, k + 1, Len(s)))

\* hashlib.sha256(data).hexdigest(): the digest is kept symbolic, a value
\* determined by the bytes hashed and by nothing else (no collisions)
Sha256Hex(data) == <<"sha256", data>>

(***************************************************************************)
(* EIP-191 signatures (eth_account).                                       *)
(***************************************************************************)
\* encode_defunct(text=message): the "personal sign" envelope
EncodeDefunct(message) ==
    [version |-> "E", header |-> Len(Utf8(message)), body |-> Utf8(message)]

\* the message signed raw, without the EIP-191 envelope
RawMessage(message) ==
    [version |-> "raw", header |-> 0, body |-> Utf8(message)]

\* a signature string: what a key signed, or a string that is no signature
SignatureOf(signer, signable) ==
    [kind |-> "ecdsa", signer |-> signer, signed |-> signable]
MalformedSignature ==
    [kind |-> "malformed", signer |-> <<>>, signed |-> RawMessage(<<>>)]

\* the signature values a request for document d can carry
Signatures(d) ==
    {MalformedSignature}
    \cup {SignatureOf(k, EncodeDefunct(d)) : k \in Signers}
    \cup {SignatureOf(Account0, EncodeDefunct(d \o <<" ">>)),
          SignatureOf(Account0, RawMessage(d))}

\* Account.recover_message(encoded, signature): the checksum address of the
\* key when the signature is over the encoded message, an unrelated address when it is
\* over something else, and an exception when it is no signature at all
Raised == <<"raised">>
RecoverMessage(encoded, signature) ==
    IF signature.kind = "malformed" THEN Raised
    ELSE IF signature.signed = encoded THEN signature.signer
    ELSE UnrelatedAccount

\* the verification as it would be if the recovery did not bind the message
verify_signature_any_message(wallet_address, signature, message) ==
    /\ signature.kind # "malformed"
    /\ Lower(signature.signer) = Lower(wallet_address)

\* verify_signature(wallet_address, signature, message)
verify_signature(wallet_address, signature, message) ==
    LET encoded == EncodeDefunct(message)
        recovered_address == RecoverMessage(encoded, signature)
    IN  IF recovered_address = Raised THEN FALSE
        ELSE Lower(recovered_address) = Lower(wallet_address)

\* allowed_wallets = {w.lower() for w in LEGAL_VALIDATORS_WHITELIST}
AllowedWallets(whitelist) == {Lower(whitelist[i]) : i \in 1..Len(whitelist)}

\* the gate as it would be without the lower() of the request's address
IsWhitelistedCaseSensitive(wallet_address, whitelist) ==
    wallet_address \in AllowedWallets(whitelist)

\* body.wallet_address.lower() in allowed_wallets
IsWhitelisted(wallet_address, whitelist) ==
    Lower(wallet_address) \in AllowedWallets(whitelist)

(***************************************************************************)
(* Python values of the verdict.  A value is written as its repr; a dict   *)
(* is the set of its (key, value) items.                                   *)
(***************************************************************************)
PyTrue == "True"
PyFalse == "False"

Dict(items) == [kind |-> "dict", items |-> items]
NonDict(kind) == [kind |-> kind, items |-> {}]

\* key in d
HasKey(d, key) == \E it \in d.items : it[1] = key

\* d.get(key) on a dict
Get(d, key) ==
    IF HasKey(d, key) THEN (CHOOSE it \in d.items : it[1] = key)[2] ELSE None

(***************************************************************************)
(* The backend's output.  The text is a sequence of lexemes: the markdown  *)
(* fence, words, JSON tokens, blanks and newlines.  A JSON string literal  *)
(* is written s:text.                                                      *)
(***************************************************************************)
\* the lexeme of three backquotes
Fence == "<fence>"

\* s.startswith(prefix)
StartsWith(s, prefix) ==
    /\ Len(s) >= Len(prefix)
    /\ SubSeq(s, 1, Len(prefix)) = prefix

\* s.split(sep)
RECURSIVE Split(_, _)
Split(s, sep) ==
    IF \A i \in 1..Len(s) : s[i] # sep THEN <<s>>
    ELSE LET i == CHOOSE k \in 1..Len(s) :
                      /\ s[k] = sep
                      /\ \A j \in 1..(k - 1) : s[j] # sep
         IN  <<SubSeq(s, 1, i - 1)>> \o Split(SubSeq(s, i + 1, Len(s)), sep)

\* sep.join(parts)
RECURSIVE Join(_, _)
Join(parts, sep) ==
    IF parts = <<>> THEN <<>>
    ELSE IF Len(parts) = 1 THEN parts[1]
    ELSE parts[1] \o <<sep>> \o Join(Tail(parts), sep)

\* JSON literals and the Python values json.loads makes of them
JsonScalars == {"true", "false", "null", "3", "7", "1", "s:true"}
JsonKeys == {"s:approved", "s:risk_score"}

PyValue(tok) ==
    CASE tok = "true"  -> PyTrue
      [] tok = "false" -> PyFalse
      [] tok = "null"  -> None
      [] tok = "s:true" -> "'true'"
      [] OTHER -> tok

PyKey(tok) ==
    CASE tok = "s:approved" -> "approved"
      [] tok = "s:risk_score" -> "risk_score"

ScalarKind(tok) ==
    CASE tok \in {"true", "false"} -> "bool"
      [] tok = "null" -> "NoneType"
      [] tok = "s:true" -> "str"
      [] OTHER -> "int"

\* the members between the braces: key : value {, key : value}
MembersOk(inner) ==
    \/ inner = <<>>
    \/ /\ Len(inner) % 4 = 3
       /\ \A i \in 1..Len(inner) :
            CASE i % 4 = 1 -> inner[i] \in JsonKeys
              [] i % 4 = 2 -> inner[i] = ":"
              [] i % 4 = 3 -> inner[i] \in JsonScalars
              [] OTHER     -> inner[i] = ","

\* the dict of the members; of a repeated key the last value stays
MembersDict(inner) ==
    LET keyAt == {i \in 1..Len(inner) : i % 4 = 1}
        last(i) == \A j \in keyAt : inner[j] = inner[i] => j <= i
    IN  Dict({<<PyKey(inner[i]), PyValue(inner[i + 2])>> : i \in {k \in keyAt : last(k)}})

\* json.loads(content): the value, or JSONDecodeError
JSONDecodeError == [kind |-> "JSONDecodeError", items |-> {}]
JsonLoads(content) ==
    LET NotSpace(c) == ~IsSpace(c)
        toks == SelectSeq(content, NotSpace)
        n == Len(toks)
    IN  IF n = 1 /\ toks[1] \in JsonScalars THEN NonDict(ScalarKind(toks[1]))
        ELSE IF toks = <<"[", "]">> THEN NonDict("list")
        ELSE IF /\ n >= 2
                /\ toks[1] = "{"
                /\ toks[n] = "}"
                /\ MembersOk(SubSeq(toks, 2, n - 1))
             THEN MembersDict(SubSeq(toks, 2, n - 1))
        ELSE JSONDecodeError

\* the removal as it would be if it did not depend on how the text begins
CleanMarkdownAnywhere(content) ==
    LET stripped == Strip(content)
        NotFenceLine(l) == ~StartsWith(Strip(l), <<Fence>>)
    IN  Join(SelectSeq(Split(stripped, "\n"), NotFenceLine), "\n")

\* main.py:113-118, the removal of the markdown fence
CleanMarkdown(content) ==
    LET stripped == Strip(content)
        NotFenceLine(l) == ~StartsWith(Strip(l), <<Fence>>)
    IN  IF StartsWith(stripped, <<Fence>>)
        THEN Join(SelectSeq(Split(stripped, "\n"), NotFenceLine), "\n")
        ELSE stripped

\* the lines a backend reply is made of: what may precede the answer, the
\* answer, and what may follow it
ReplyOpenings == {<<>>, <<<<Fence>>>>, <<<<Fence, "json">>>>, <<<<"Sure">>>>}
ReplyAnswers ==
    { <<"{", "s:approved", ":", "true", ",", "s:risk_score", ":", "3", "}">>,
      <<"{", "s:approved", ":", "false", ",", "s:risk_score", ":", "7", "}">>,
      <<"{", "s:approved", ":", "s:true", "}">>,
      <<"{", "s:approved", ":", "1", "}">>,
      <<"[", "]">>,
      <<"Sure">> }
ReplyClosings == {<<>>, <<<<Fence>>>>}

\* the texts response.choices[0].message.content can be
ReplyContents ==
    {<<>>} \cup
    {Join(open \o <<answer>> \o close, "\n") :
        open \in ReplyOpenings, answer \in ReplyAnswers, close \in ReplyClosings}

\* how the awaited call to the backend ends
BackendOutcomes ==
    {[kind |-> "content", content |-> c, error |-> ""] : c \in ReplyContents}
    \cup {[kind |-> "no_content", content |-> <<>>, error |-> ""]}
    \cup {[kind |-> "exception", content |-> <<>>, error |-> e] :
             e \in {"Connection error.", "Request timed out.",
                    "Incorrect API key provided"}}
    \cup {[kind |-> "cancelled", content |-> <<>>, error |-> ""]}

\* the handler of main.py:120-122 as it would be without the error text
VerdictOfBackendNoDetail(outcome) ==
    IF outcome.kind = "exception"
    THEN Dict({<<"approved", PyFalse>>})
    ELSE LET content == IF outcome.kind = "no_content" \/ outcome.content = <<>>
                        THEN <<"{", "}">>
                        ELSE outcome.content
             loaded == JsonLoads(CleanMarkdown(content))
         IN  IF loaded = JSONDecodeError
             THEN Dict({<<"approved", PyFalse>>})
             ELSE loaded

\* main.py:111-122: the verdict made of what the backend call returned or
\* raised (an Exception; CancelledError is none and is not handled here)
VerdictOfBackend(outcome) ==
    IF outcome.kind = "exception"
    THEN Dict({<<"approved", PyFalse>>, <<"error", outcome.error>>})
    ELSE LET content == IF outcome.kind = "no_content" \/ outcome.content = <<>>
                        THEN <<"{", "}">>
                        ELSE outcome.content
             loaded == JsonLoads(CleanMarkdown(content))
         IN  IF loaded = JSONDecodeError
             THEN Dict({<<"approved", PyFalse>>, <<"error", "JSONDecodeError">>})
             ELSE loaded

\* the rule as it would be with "or" for "and"
RuleBasedVerdictEither(text) ==
    LET text_lower == Lower(text)
    IN  IF Contains(text_lower, KeywordRedencion) \/ Contains(text_lower, KeywordColateral)
        THEN Dict({<<"approved", PyTrue>>, <<"risk_score", "1">>})
        ELSE Dict({<<"approved", PyFalse>>})

\* main.py:125-128: the rule of the two keywords
RuleBasedVerdict(text) ==
    LET text_lower == Lower(text)
    IN  IF Contains(text_lower, KeywordRedencion) /\ Contains(text_lower, KeywordColateral)
        THEN Dict({<<"approved", PyTrue>>, <<"risk_score", "1">>})
        ELSE Dict({<<"approved", PyFalse>>})

\* the values of the environment variable OPENAI_API_KEY
EnvValues ==
    { [set |-> FALSE, value |-> <<>>],
      [set |-> TRUE, value |-> <<>>],
      [set |-> TRUE, value |-> <<" ", " ">>],
      [set |-> TRUE, value |-> <<"s", "k", "-", "1">>] }

\* main.py:97: api_key and api_key.strip()
KeyConfigured(api_key) == api_key.set /\ api_key.value # <<>> /\ Strip(api_key.value) # <<>>

\* text[:12000]
ContextLimit == 12000

(***************************************************************************)
(* The state of the service.                                               *)
(***************************************************************************)
VARIABLES
    environ,      \* os.environ["OPENAI_API_KEY"]
    whitelist,    \* LEGAL_VALIDATORS_WHITELIST
    pc,           \* where audit_contract is in the request it handles
    body,         \* the TokenizationRequest
    calls,        \* what audit_contract has invoked for this request, in order
    prompt,       \* the user message submitted to the backend
    api_key,      \* analyze_legal_document's local: os.getenv("OPENAI_API_KEY")
    outcome,      \* how the awaited backend call ended
    ai_result,    \* the analyzer's verdict
    response,     \* what audit_contract returned or raised
    analyzed_by,  \* (key configured, variant) of every analysis made so far
    first,        \* the request a client is about to send again, and how it ended
    parked        \* the locals of a handler suspended at its await (main.py:103)

vars == <<environ, whitelist, pc, body, calls, prompt, api_key, outcome, ai_result, response, analyzed_by,
          first, parked>>

NoBody == [wallet_address |-> <<>>, signature |-> MalformedSignature, document_content |-> <<>>]
NoKey == [set |-> FALSE, value |-> <<"unread">>]
NoOutcome == [kind |-> "none", content |-> <<>>, error |-> ""]
NoResult == [kind |-> "unset", items |-> {}]
NoHash == <<>>
NoResponse ==
    [status_code |-> 0, raised |-> "", keys |-> {}, status |-> "", audit_result |-> NoResult,
     document_hash |-> NoHash, signature_from_oracle |-> ""]

\* no request has been kept for a second sending
NoFirst ==
    [taken |-> FALSE, body |-> NoBody, outcome |-> NoOutcome, ai_result |-> NoResult,
     response |-> NoResponse]

\* no handler is suspended
NoContext == [held |-> FALSE, body |-> NoBody, calls |-> <<>>, prompt |-> <<>>, api_key |-> NoKey]

\* raise HTTPException(status_code=code, detail=...)
HttpError(code) == [NoResponse EXCEPT !.status_code = code, !.raised = "HTTPException", !.keys = {"detail"}]

\* an exception no handler of main.py catches: FastAPI answers 500, and a
\* cancelled task answers nothing
Unhandled(exception) ==
    [NoResponse EXCEPT !.status_code = IF exception = "CancelledError" THEN 0 ELSE 500,
                       !.raised = exception]

\* the assembly as it would be if the digest were attached to every answer
AssembleResponseHashAlways(request, result) ==
    IF result.kind # "dict" THEN Unhandled("AttributeError")
    ELSE [NoResponse EXCEPT
            !.status_code = 200,
            !.keys = {"status", "audit_result", "document_hash", "signature_from_oracle"},
            !.status = IF Get(result, "approved") = PyTrue THEN "success" ELSE "rejected",
            !.audit_result = result,
            !.document_hash = Sha256Hex(Utf8(request.document_content)),
            !.signature_from_oracle = "simulated_signature_0x123"]

\* the assembly as it would be if the digest were of the lower-cased text
\* the rule reads
AssembleResponseHashLower(request, result) ==
    IF result.kind # "dict" THEN Unhandled("AttributeError")
    ELSE IF Get(result, "approved") = PyTrue
    THEN [NoResponse EXCEPT
            !.status_code = 200,
            !.keys = {"status", "audit_result", "document_hash", "signature_from_oracle"},
            !.status = "success",
            !.audit_result = result,
            !.document_hash = Sha256Hex(Utf8(Lower(request.document_content))),
            !.signature_from_oracle = "simulated_signature_0x123"]
    ELSE [NoResponse EXCEPT
            !.status_code = 200,
            !.keys = {"status", "audit_result"},
            !.status = "rejected",
            !.audit_result = result]

\* the assembly as it would be if it tested the truth value of approved
\* ("if ai_result.get('approved'):") instead of its identity with True
AssembleResponseTruthy(request, result) ==
    IF result.kind # "dict" THEN Unhandled("AttributeError")
    ELSE IF Get(result, "approved") \notin {PyFalse, None, "0"}
    THEN [NoResponse EXCEPT
            !.status_code = 200,
            !.keys = {"status", "audit_result", "document_hash", "signature_from_oracle"},
            !.status = "success",
            !.audit_result = result,
            !.document_hash = Sha256Hex(Utf8(request.document_content)),
            !.signature_from_oracle = "simulated_signature_0x123"]
    ELSE [NoResponse EXCEPT
            !.status_code = 200,
            !.keys = {"status", "audit_result"},
            !.status = "rejected",
            !.audit_result = result]

\* main.py:166-180
AssembleResponse(request, result) ==
    IF result.kind # "dict" THEN Unhandled("AttributeError")
    ELSE IF Get(result, "approved") = PyTrue
    THEN [NoResponse EXCEPT
            !.status_code = 200,
            !.keys = {"status", "audit_result", "document_hash", "signature_from_oracle"},
            !.status = "success",
            !.audit_result = result,
            !.document_hash = Sha256Hex(Utf8(request.document_content)),
            !.signature_from_oracle = "simulated_signature_0x123"]
    ELSE [NoResponse EXCEPT
            !.status_code = 200,
            !.keys = {"status", "audit_result"},
            !.status = "rejected",
            !.audit_result = result]

Init ==
    /\ environ \in EnvValues
    /\ whitelist = LEGAL_VALIDATORS_WHITELIST
    /\ pc = "idle"
    /\ body = NoBody
    /\ calls = <<>>
    /\ prompt = <<>>
    /\ api_key = NoKey
    /\ outcome = NoOutcome
    /\ ai_result = NoResult
    /\ response = NoResponse
    /\ analyzed_by = {}
    /\ first = NoFirst
    /\ parked = NoContext

\* POST /audit-contract arrives
Receive(w, d, s) ==
    /\ pc = "idle"
    /\ pc' = "authorizing"
    /\ body' = [wallet_address |-> w, signature |-> s, document_content |-> d]
    /\ UNCHANGED <<environ, whitelist, calls, prompt, api_key, outcome, ai_result, response, analyzed_by>>
    /\ UNCHANGED <<first, parked>>

\* the gate as it would be if an authorization were spent by its use
AuthorizeConsuming ==
    /\ pc = "authorizing"
    /\ calls' = Append(calls, "whitelist")
    /\ IF IsWhitelisted(body.wallet_address, whitelist)
       THEN pc' = "verifying" /\ whitelist' = <<>> /\ UNCHANGED response
       ELSE pc' = "done" /\ response' = HttpError(403) /\ UNCHANGED whitelist
    /\ UNCHANGED <<environ, body, prompt, api_key, outcome, ai_result, analyzed_by>>
    /\ UNCHANGED <<first, parked>>

\* main.py:146-151
Authorize ==
    /\ pc = "authorizing"
    /\ calls' = Append(calls, "whitelist")
    /\ IF IsWhitelisted(body.wallet_address, whitelist)
       THEN pc' = "verifying" /\ UNCHANGED response
       ELSE pc' = "done" /\ response' = HttpError(403)
    /\ UNCHANGED <<environ, whitelist, body, prompt, api_key, outcome, ai_result, analyzed_by>>
    /\ UNCHANGED <<first, parked>>

\* the signature step as it would be if its result did not stop the request
VerifySignatureUngated ==
    /\ pc = "verifying"
    /\ calls' = Append(calls, "verify_signature")
    /\ pc' = "analyzing"
    /\ UNCHANGED <<environ, whitelist, body, prompt, api_key, outcome, ai_result, response, analyzed_by>>
    /\ UNCHANGED <<first, parked>>

\* main.py:154-160
VerifySignature ==
    /\ pc = "verifying"
    /\ calls' = Append(calls, "verify_signature")
    /\ IF verify_signature(body.wallet_address, body.signature, body.document_content)
       THEN pc' = "analyzing" /\ UNCHANGED response
       ELSE pc' = "done" /\ response' = HttpError(401)
    /\ UNCHANGED <<environ, whitelist, body, prompt, api_key, outcome, ai_result, analyzed_by>>
    /\ UNCHANGED <<first, parked>>

\* the choice as it would be if a blank key counted as a key
VariantKeyPresent(key) == IF key.set THEN "ai" ELSE "rule"

\* main.py:95-97: the variant this call of analyze_legal_document takes
Variant(key) == IF KeyConfigured(key) THEN "ai" ELSE "rule"

\* main.py:163 and 95-110, 123-128: analyze_legal_document is entered; it
\* answers by the rule, or submits the text and awaits the backend
Analyze ==
    /\ pc = "analyzing"
    /\ calls' = Append(calls, "analyze_legal_document")
    /\ api_key' = environ
    /\ analyzed_by' = analyzed_by \cup {<<KeyConfigured(environ), Variant(environ)>>}
    /\ IF Variant(environ) = "ai"
       THEN /\ pc' = "awaiting"
            /\ prompt' = Prefix(body.document_content, ContextLimit)
            /\ UNCHANGED ai_result
       ELSE /\ pc' = "assembling"
            /\ ai_result' = RuleBasedVerdict(body.document_content)
            /\ UNCHANGED prompt
    /\ UNCHANGED <<environ, whitelist, body, outcome, response>>
    /\ UNCHANGED <<first, parked>>

\* main.py:103-122: the awaited call returns or raises an Exception
BackendReturns(o) ==
    /\ pc = "awaiting"
    /\ o.kind # "cancelled"
    /\ outcome' = o
    /\ ai_result' = VerdictOfBackend(o)
    /\ pc' = "assembling"
    /\ UNCHANGED <<environ, whitelist, body, calls, prompt, api_key, response, analyzed_by>>
    /\ UNCHANGED <<first, parked>>

\* main.py:103: the task is cancelled while it awaits; CancelledError is a
\* BaseException, which neither main.py:120 nor audit_contract catches
BackendCancelled(o) ==
    /\ pc = "awaiting"
    /\ o.kind = "cancelled"
    /\ outcome' = o
    /\ response' = Unhandled("CancelledError")
    /\ pc' = "done"
    /\ UNCHANGED <<environ, whitelist, body, calls, prompt, api_key, ai_result, analyzed_by>>
    /\ UNCHANGED <<first, parked>>

\* main.py:165-180
Respond ==
    /\ pc = "assembling"
    /\ response' = AssembleResponse(body, ai_result)
    /\ pc' = "done"
    /\ UNCHANGED <<environ, whitelist, body, calls, prompt, api_key, outcome, ai_result, analyzed_by>>
    /\ UNCHANGED <<first, parked>>

\* the response is sent; nothing of the request is kept (main.py keeps no
\* state between two requests)
Finish ==
    /\ pc = "done"
    /\ pc' = "idle"
    /\ body' = NoBody
    /\ calls' = <<>>
    /\ prompt' = <<>>
    /\ api_key' = NoKey
    /\ outcome' = NoOutcome
    /\ ai_result' = NoResult
    /\ response' = NoResponse
    /\ UNCHANGED <<environ, whitelist, analyzed_by>>
    /\ UNCHANGED <<first, parked>>

\* the configuration changes between two requests
SetEnv(v) ==
    /\ pc = "idle"
    /\ v # environ
    /\ environ' = v
    /\ UNCHANGED <<whitelist, pc, body, calls, prompt, api_key, outcome, ai_result, response, analyzed_by>>
    /\ UNCHANGED <<first, parked>>

Next ==
    \/ /\ pc = "idle"
       /\ \E w \in Wallets, d \in Documents : \E s \in Signatures(d) : Receive(w, d, s)
    \/ Authorize
    \/ VerifySignature
    \/ Analyze
    \/ \E o \in BackendOutcomes : BackendReturns(o)
    \/ \E o \in BackendOutcomes : BackendCancelled(o)
    \/ Respond
    \/ Finish
    \/ \E v \in EnvValues : SetEnv(v)

Spec == Init /\ [][Next]_vars

(***************************************************************************)
(* The same request sent twice.  A client sends a request, keeps it with   *)
(* the answer it got, and sends it again; the configuration is left alone  *)
(* and the backend ends the second call as it ended the first.             *)
(***************************************************************************)
\* the first answer is sent; the client keeps the request and its answer
Remember ==
    /\ pc = "done"
    /\ ~first.taken
    /\ first' = [taken |-> TRUE, body |-> body, outcome |-> outcome, ai_result |-> ai_result,
                 response |-> response]
    /\ pc' = "idle"
    /\ body' = NoBody
    /\ calls' = <<>>
    /\ prompt' = <<>>
    /\ api_key' = NoKey
    /\ outcome' = NoOutcome
    /\ ai_result' = NoResult
    /\ response' = NoResponse
    /\ UNCHANGED <<environ, whitelist, analyzed_by, parked>>

\* POST /audit-contract arrives again with the request that was kept
Replay ==
    /\ first.taken
    /\ Receive(first.body.wallet_address, first.body.document_content, first.body.signature)

NextReplay ==
    \/ /\ ~first.taken
       /\ pc = "idle"
       /\ \E w \in Wallets, d \in Documents : \E s \in Signatures(d) : Receive(w, d, s)
    \/ Authorize
    \/ VerifySignature
    \/ Analyze
    \/ ~first.taken /\ \E o \in BackendOutcomes : BackendReturns(o)
    \/ ~first.taken /\ \E o \in BackendOutcomes : BackendCancelled(o)
    \/ first.taken /\ BackendReturns(first.outcome)
    \/ first.taken /\ BackendCancelled(first.outcome)
    \/ Respond
    \/ Remember
    \/ Replay

SpecReplay == Init /\ [][NextReplay]_vars

(***************************************************************************)
(* Documents about as long as the analyzer's cut (main.py:107).            *)
(***************************************************************************)
\* a text of n characters that ends with the two keywords
Padded(n) ==
    [i \in 1..(n - Len(KeywordRedencion) - Len(KeywordColateral)) |-> "a"]
        \o KeywordRedencion \o KeywordColateral

\* texts one character under the cut, of its length, and one character over
LongDocuments == {Padded(ContextLimit - 1), Padded(ContextLimit), Padded(ContextLimit + 1)}

\* the signature values a request for a long document d can carry: those of
\* any request, and the signer's own over the part of d the backend is sent
LongSignatures(d) ==
    Signatures(d) \cup
    {SignatureOf(Account0,
                 EncodeDefunct(SubSeq(d, 1, IF Len(d) < ContextLimit THEN Len(d) ELSE ContextLimit)))}

\* how the backend call for a long document can end: as any call, the
\* fenced replies left out
LongOutcomes ==
    {o \in BackendOutcomes : \A i \in 1..Len(o.content) : o.content[i] # Fence}

NextLong ==
    \/ /\ pc = "idle"
       /\ \E w \in {Account0Lower, Account1}, d \in LongDocuments :
             \E s \in LongSignatures(d) : Receive(w, d, s)
    \/ Authorize
    \/ VerifySignature
    \/ Analyze
    \/ \E o \in LongOutcomes : BackendReturns(o)
    \/ \E o \in LongOutcomes : BackendCancelled(o)
    \/ Respond

SpecLong == Init /\ [][NextLong]_vars

(***************************************************************************)
(* Two requests in flight.  The event loop runs one handler at a time and  *)
(* changes handler only where the running one awaits (main.py:103): the    *)
(* handler's locals stay in its frame until its backend call ends.         *)
(***************************************************************************)
\* the document_content values of the requests that overlap
ConcurrentDocuments == {KeywordRedencion \o KeywordColateral, KeywordColateral, <<>>}

\* the requests that overlap
ConcurrentRequests ==
    {[wallet_address |-> w, signature |-> s, document_content |-> d] :
        w \in {Account0Lower, Account1},
        s \in {MalformedSignature} \cup {SignatureOf(Account0, EncodeDefunct(d)) : d \in ConcurrentDocuments},
        d \in ConcurrentDocuments}

\* the locals of the handler that runs
Context == [held |-> TRUE, body |-> body, calls |-> calls, prompt |-> prompt, api_key |-> api_key]

\* the running handler awaits the backend and the event loop is free
Suspend ==
    /\ pc = "awaiting"
    /\ ~parked.held
    /\ parked' = Context
    /\ pc' = "idle"
    /\ body' = NoBody
    /\ calls' = <<>>
    /\ prompt' = <<>>
    /\ api_key' = NoKey
    /\ UNCHANGED <<environ, whitelist, outcome, ai_result, response, analyzed_by, first>>

\* the event loop returns to the suspended handler
Resume ==
    /\ pc = "idle"
    /\ parked.held
    /\ parked' = NoContext
    /\ pc' = "awaiting"
    /\ body' = parked.body
    /\ calls' = parked.calls
    /\ prompt' = parked.prompt
    /\ api_key' = parked.api_key
    /\ UNCHANGED <<environ, whitelist, outcome, ai_result, response, analyzed_by, first>>

\* the turn as it would be if the request were kept in a module global,
\* which the latest request overwrites
SwitchSharedRequest ==
    /\ pc = "awaiting"
    /\ parked.held
    /\ parked' = Context
    /\ calls' = parked.calls
    /\ prompt' = parked.prompt
    /\ api_key' = parked.api_key
    /\ UNCHANGED <<environ, whitelist, pc, body, outcome, ai_result, response, analyzed_by, first>>

\* both handlers await; the event loop turns from one to the other
Switch ==
    /\ pc = "awaiting"
    /\ parked.held
    /\ parked' = Context
    /\ body' = parked.body
    /\ calls' = parked.calls
    /\ prompt' = parked.prompt
    /\ api_key' = parked.api_key
    /\ UNCHANGED <<environ, whitelist, pc, outcome, ai_result, response, analyzed_by, first>>

NextConcurrent ==
    \/ /\ pc = "idle"
       /\ \E b \in ConcurrentRequests : Receive(b.wallet_address, b.document_content, b.signature)
    \/ Authorize
    \/ VerifySignature
    \/ Analyze
    \/ \E o \in BackendOutcomes : BackendReturns(o)
    \/ \E o \in BackendOutcomes : BackendCancelled(o)
    \/ Respond
    \/ Finish
    \/ \E v \in EnvValues : SetEnv(v)
    \/ Suspend
    \/ Resume
    \/ Switch

SpecConcurrent == Init /\ [][NextConcurrent]_vars

(***************************************************************************)
(* Properties.                                                             *)
(***************************************************************************)
\* audit_contract has invoked `name` for the request it handles
Called(name) == \E i \in 1..Len(calls) : calls[i] = name

\* a and b are the same identity up to letter case
SameIgnoringCase(a, b) ==
    /\ Len(a) = Len(b)
    /\ \A i \in 1..Len(a) : LowerChar(a[i]) = LowerChar(b[i])

\* the request's signer is an identity of the whitelist, up to letter case
SignerListed ==
    \E i \in 1..Len(LEGAL_VALIDATORS_WHITELIST) :
        SameIgnoringCase(body.wallet_address, LEGAL_VALIDATORS_WHITELIST[i])

\* the request's signature is the signer's own over the EIP-191 envelope of
\* the request's document
SignatureGenuine ==
    /\ body.signature.kind = "ecdsa"
    /\ SameIgnoringCase(body.signature.signer, body.wallet_address)
    /\ body.signature.signed = EncodeDefunct(body.document_content)

Gated == pc \notin {"idle", "authorizing"}

\* C1: a request whose signer is not in the whitelist, letter case aside,
\* ends in 403 whatever its signature is, with nothing done after the
\* whitelist gate; a signer that is in the whitelist up to letter case is
\* never answered 403.
C1_UnauthorizedFirst ==
    Gated =>
        /\ ~SignerListed =>
              /\ pc = "done"
              /\ response.status_code = 403
              /\ response.raised = "HTTPException"
              /\ calls = <<"whitelist">>
        /\ SignerListed => response.status_code # 403

\* a signer that is not whitelisted was refused although its signature is
\* genuine
C1_Witness_ValidSignatureRefused ==
    /\ pc = "done"
    /\ ~SignerListed
    /\ SignatureGenuine
    /\ response.status_code = 403

\* C2: for a whitelisted signer whose signature is not that signer's over
\* the document, verify_signature is false (a boolean, nothing raised) and
\* the request ends in 401.
C2_InvalidSignature ==
    (Gated /\ SignerListed /\ ~SignatureGenuine) =>
        /\ verify_signature(body.wallet_address, body.signature, body.document_content) = FALSE
        /\ pc \in {"verifying", "done"}
        /\ pc = "done" =>
              /\ response.status_code = 401
              /\ response.raised = "HTTPException"

\* a whitelisted signer sent its own signature over another content and
\* was answered 401
C2_Witness_OtherContent ==
    /\ pc = "done"
    /\ SignerListed
    /\ body.signature.kind = "ecdsa"
    /\ SameIgnoringCase(body.signature.signer, body.wallet_address)
    /\ body.signature.signed = EncodeDefunct(body.document_content \o <<" ">>)
    /\ response.status_code = 401

\* C3: the analyzer is invoked only after the whitelist gate and then the
\* signature gate have passed, in that order; a request refused by a gate
\* has no analysis: nothing submitted to the backend, no verdict.
C3_AnalyzerAfterGates ==
    /\ Called("analyze_legal_document") =>
          /\ calls = <<"whitelist", "verify_signature", "analyze_legal_document">>
          /\ SignerListed
          /\ SignatureGenuine
    /\ (Gated /\ (~SignerListed \/ ~SignatureGenuine)) =>
          /\ ~Called("analyze_legal_document")
          /\ api_key = NoKey
          /\ prompt = <<>>
          /\ outcome = NoOutcome
          /\ ai_result = NoResult

\* the analyzer has run for a request that passed both gates
C3_Witness_Analyzed ==
    /\ pc = "done"
    /\ calls = <<"whitelist", "verify_signature", "analyze_legal_document">>
    /\ body.wallet_address = Account0Lower
    /\ response.status_code = 200

\* text contains keyword when letter case is ignored
ContainsIgnoringCase(text, keyword) ==
    \E i \in 1..(Len(text) - Len(keyword) + 1) :
        \A k \in 1..Len(keyword) : LowerChar(text[i + k - 1]) = keyword[k]

HasBothKeywords(text) ==
    /\ ContainsIgnoringCase(text, KeywordRedencion)
    /\ ContainsIgnoringCase(text, KeywordColateral)

\* the analyzer has answered, and by which variant
Analyzed == Called("analyze_legal_document") /\ pc \in {"assembling", "done"} /\ outcome.kind # "cancelled"
RuleAnalyzed == Analyzed /\ ~KeyConfigured(api_key)
AiAnalyzed == Analyzed /\ KeyConfigured(api_key)

\* C4: with no key configured the analyzer approves exactly the texts that
\* contain both keywords, letter case aside, wherever they stand; the
\* approving verdict has risk score 1 and the other verdict is
\* approved=false with no risk score.
C4_RuleBased ==
    RuleAnalyzed =>
        /\ (Get(ai_result, "approved") = PyTrue) <=> HasBothKeywords(body.document_content)
        /\ HasBothKeywords(body.document_content) =>
              ai_result = Dict({<<"approved", PyTrue>>, <<"risk_score", "1">>})
        /\ ~HasBothKeywords(body.document_content) =>
              ai_result = Dict({<<"approved", PyFalse>>})

\* the rule approved a text that has COLATERAL before REDENCIO'N, in
\* capitals, and the request succeeded
C4_Witness_Approved ==
    /\ RuleAnalyzed
    /\ pc = "done"
    /\ body.document_content =
          <<"C", "o", "l", "a", "t", "e", "r", "a", "l", "R", "E", "D", "E", "N", "C", "I", "O'", "N">>
    /\ Get(ai_result, "risk_score") = "1"
    /\ response.status = "success"

\* C5: an outcome audit_contract returns is success exactly when the
\* verdict's approved is True, and carries document_hash and
\* signature_from_oracle exactly when it is success; a rejected outcome
\* carries neither.
C5_OutcomeShape ==
    (pc = "done" /\ response.status_code = 200) =>
        /\ response.status \in {"success", "rejected"}
        /\ response.audit_result = ai_result
        /\ (response.status = "success") <=> (Get(ai_result, "approved") = PyTrue)
        /\ ("document_hash" \in response.keys) <=> (response.status = "success")
        /\ ("signature_from_oracle" \in response.keys) <=> (response.status = "success")
        /\ response.status = "success" =>
              /\ response.document_hash # NoHash
              /\ response.signature_from_oracle # ""
        /\ response.status = "rejected" =>
              /\ response.document_hash = NoHash
              /\ response.signature_from_oracle = ""

\* a rejected outcome was returned for a verdict of the backend
C5_Witness_Rejected ==
    /\ pc = "done"
    /\ AiAnalyzed
    /\ response.status = "rejected"
    /\ response.keys = {"status", "audit_result"}

\* the verdict is approved=false with an error text
ErrorVerdict ==
    /\ ai_result.kind = "dict"
    /\ Get(ai_result, "approved") = PyFalse
    /\ HasKey(ai_result, "error")
    /\ Get(ai_result, "error") # ""

\* the failure became a rejection and nothing was raised
DegradedToRejection ==
    /\ ErrorVerdict
    /\ pc = "done" =>
          /\ response.status_code = 200
          /\ response.raised = ""
          /\ response.status = "rejected"

\* the text returned is no JSON once its fence lines are removed
Unparseable(content) == JsonLoads(CleanMarkdown(content)) = JSONDecodeError

C7_Claimed_NoScoreWhenRejected ==
    (Analyzed /\ ai_result.kind = "dict" /\ Get(ai_result, "approved") = PyFalse) =>
        ~HasKey(ai_result, "risk_score")

\* C8 as claimed: a request whose backend call, if any, returned or raised
\* ends in one of 403, 401, success and rejected, having taken each step
\* at most once.
C8_Claimed_FourTerminals ==
    /\ \A i, j \in 1..Len(calls) : calls[i] = calls[j] => i = j
    /\ (pc = "done" /\ outcome.kind # "cancelled") =>
          \/ response.status_code = 403 /\ response.raised = "HTTPException"
          \/ response.status_code = 401 /\ response.raised = "HTTPException"
          \/ response.status_code = 200 /\ response.status \in {"success", "rejected"}

\* C9 as claimed: a backend call that times out or is cancelled becomes a
\* verdict approved=false with an error text, and the request ends
\* rejected.
C9_Claimed_TimeoutOrCancelRejects ==
    (pc = "done" /\ (\/ outcome.kind = "cancelled"
                     \/ outcome.kind = "exception" /\ outcome.error = "Request timed out.")) =>
        /\ ErrorVerdict
        /\ response.status = "rejected"

C11_SameRequestSameAnswer ==
    (first.taken /\ pc = "done") =>
        /\ response = first.response
        /\ ai_result = first.ai_result
        /\ whitelist = LEGAL_VALIDATORS_WHITELIST

\* a request approved by the backend was sent again and approved again
C11_Witness_ApprovedTwice ==
    /\ first.taken
    /\ pc = "done"
    /\ body = first.body
    /\ KeyConfigured(api_key)
    /\ first.response.status = "success"
    /\ response.status = "success"
    /\ response.document_hash = first.response.document_hash

\* what audit_contract answers to the request it handles when no other
\* request is in flight, given the key it read and how its backend call ended
AloneResponse ==
    IF ~SignerListed THEN HttpError(403)
    ELSE IF ~SignatureGenuine THEN HttpError(401)
    ELSE IF ~KeyConfigured(api_key) THEN AssembleResponse(body, RuleBasedVerdict(body.document_content))
    ELSE IF outcome.kind = "cancelled" THEN Unhandled("CancelledError")
    ELSE AssembleResponse(body, VerdictOfBackend(outcome))

\* the request the running handler answers is the one whose text it submitted
OwnPrompt ==
    AiAnalyzed =>
        /\ Len(prompt) = Len(body.document_content)
        /\ \A i \in 1..Len(prompt) : prompt[i] = body.document_content[i]

\* C12: however the handlers of two requests in flight take turns, no step
\* of a request writes the whitelist, the configuration or the locals of the
\* suspended handler, and every request is answered as it is when it runs
\* alone with the same key and the same end of its backend call.
C12_Isolated ==
    /\ [](pc = "done" => (response = AloneResponse /\ OwnPrompt))
    /\ [][/\ whitelist' = whitelist
          /\ pc # "idle" => environ' = environ
          /\ (parked.held /\ parked' # parked) => body' = parked.body]_vars

\* a request was answered Success while another, with another document,
\* still awaits the backend
C12_Witness_AnsweredWhileOtherAwaits ==
    /\ pc = "done"
    /\ parked.held
    /\ parked.body.document_content # body.document_content
    /\ KeyConfigured(api_key)
    /\ response.status = "success"

\* the text returned, once its fence lines are removed, is no JSON, or JSON
\* that is no object, or an object whose approved is absent or no boolean
Malformed(content) ==
    LET value == JsonLoads(CleanMarkdown(content))
    IN  \/ value = JSONDecodeError
        \/ value.kind # "dict"
        \/ ~HasKey(value, "approved")
        \/ Get(value, "approved") \notin {PyTrue, PyFalse}

\* C13 as claimed: with the AI-backed analyzer, a reply that is not JSON,
\* or JSON that is not an object, or an object without a boolean approved,
\* is treated as a parse failure: the verdict is approved=false with an
\* error text and the request ends rejected.
C13_Claimed_MalformedIsParseFailure ==
    (AiAnalyzed /\ outcome.kind = "content" /\ outcome.content # <<>>
                /\ Malformed(outcome.content)) =>
        DegradedToRejection

\* positions i and j of the text are on one line
SameLine(text, i, j) ==
    \A k \in (IF i < j THEN i ELSE j)..(IF i < j THEN j ELSE i) : text[k] # "\n"

\* position i of the text is on a line that begins, blanks aside, with a fence
OnFenceLine(text, i) ==
    \E j \in 1..Len(text) :
        /\ text[j] = Fence
        /\ SameLine(text, i, j)
        /\ \A k \in 1..(j - 1) : SameLine(text, k, j) => IsSpace(text[k])

\* the text begins, blanks aside, with a fence
BeginsWithFence(text) ==
    \E j \in 1..Len(text) : text[j] = Fence /\ \A k \in 1..(j - 1) : IsSpace(text[k])

\* the text less its fence lines
WithoutFenceLines(text) ==
    LET numbered == [i \in 1..Len(text) |-> <<i, text[i]>>]
        Stays(p) == ~OnFenceLine(text, p[1])
        kept == SelectSeq(numbered, Stays)
    IN  [i \in 1..Len(kept) |-> kept[i][2]]

\* the verdict the analyzer makes of a text it parses as it is
ParsedAsIs(text) ==
    IF JsonLoads(text) = JSONDecodeError
    THEN Dict({<<"approved", PyFalse>>, <<"error", "JSONDecodeError">>})
    ELSE JsonLoads(text)

\* the backend returned a text that has a fence line
RepliedWithFence ==
    /\ AiAnalyzed
    /\ outcome.kind = "content"
    /\ \E i \in 1..Len(outcome.content) : outcome.content[i] = Fence

\* C14 as claimed: whenever the text returned has fence lines, the verdict
\* is the one parsed from the text less every fence line, wherever in the
\* text the fence lines are.
C14_Claimed_FenceLinesRemovedAnywhere ==
    RepliedWithFence => ai_result = ParsedAsIs(WithoutFenceLines(outcome.content))

\* C14: when the text returned begins, blanks aside, with a fence, the
\* verdict is the one parsed from the text less every line that begins with
\* a fence and less no other line; when the text does not begin with a
\* fence, no line is removed and the verdict is the one parsed from the
\* whole text, an error verdict whenever a fence line is in it.
C14_FenceLinesRemovedWhenFirst ==
    (AiAnalyzed /\ outcome.kind = "content" /\ outcome.content # <<>>) =>
        /\ BeginsWithFence(outcome.content) =>
              ai_result = ParsedAsIs(WithoutFenceLines(outcome.content))
        /\ ~BeginsWithFence(outcome.content) =>
              /\ ai_result = ParsedAsIs(outcome.content)
              /\ RepliedWithFence => ErrorVerdict

\* an approving answer followed by a fence line, with no fence before it,
\* was not parsed: the request ended rejected with an error text
C14_Witness_TrailingFenceRejected ==
    /\ pc = "done"
    /\ RepliedWithFence
    /\ ~BeginsWithFence(outcome.content)
    /\ Get(ParsedAsIs(WithoutFenceLines(outcome.content)), "approved") = PyTrue
    /\ ErrorVerdict
    /\ response.status = "rejected"

\* an approving answer between two fence lines was parsed and approved
C14_Witness_FencedApproved ==
    /\ pc = "done"
    /\ RepliedWithFence
    /\ BeginsWithFence(outcome.content)
    /\ response.status = "success"

\* the text submitted to the backend is the first ContextLimit characters
\* of the document, all of it when it has no more
FirstCharactersSubmitted ==
    /\ Len(prompt) <= ContextLimit
    /\ Len(prompt) <= Len(body.document_content)
    /\ Len(prompt) = ContextLimit \/ Len(prompt) = Len(body.document_content)
    /\ \A i \in 1..Len(prompt) : prompt[i] = body.document_content[i]

\* C15: the AI-backed analyzer submits the first 12,000 characters of the
\* document, the whole document when it has no more; a document of any
\* length whose request passes both gates is analyzed and answered by its
\* verdict alone (the rule reads the whole text); the signature that passes
\* the gate is over the whole document and the document_hash of a success
\* is the digest of the whole document.
C15_TruncatedForBackendOnly ==
    /\ (Called("analyze_legal_document") /\ KeyConfigured(api_key)) => FirstCharactersSubmitted
    /\ (pc = "done" /\ SignerListed /\ SignatureGenuine) =>
          /\ Called("analyze_legal_document")
          /\ response.raised \in {"", "AttributeError", "CancelledError"}
          /\ RuleAnalyzed => (response.status = "success" <=> HasBothKeywords(body.document_content))
          /\ AiAnalyzed =>
                (response.status = "success" <=>
                    (ai_result.kind = "dict" /\ Get(ai_result, "approved") = PyTrue))
    /\ Called("analyze_legal_document") => body.signature.signed = EncodeDefunct(body.document_content)
    /\ response.status = "success" =>
          /\ response.document_hash = <<"sha256", Utf8(body.document_content)>>
          /\ Len(response.document_hash[2]) >= Len(body.document_content)

\* a document one character longer than the cut was approved by the
\* backend on its first 12,000 characters, and the digest is of all of it
C15_Witness_LongDocumentApproved ==
    /\ pc = "done"
    /\ AiAnalyzed
    /\ Len(body.document_content) = ContextLimit + 1
    /\ Len(prompt) = ContextLimit
    /\ response.status = "success"
    /\ response.document_hash = Sha256Hex(Utf8(body.document_content))
    /\ response.document_hash # Sha256Hex(Utf8(prompt))

\* C16: a request is answered success, with document_hash and
\* signature_from_oracle, only if its signer is in the whitelist, its
\* signature is that signer's over its document_content, both gates and then
\* the analyzer were passed in that order, and the verdict approves it; the
\* document_hash is the digest of the bytes that were signed, those of the
\* document_content the analyzer was given; no other answer carries a
\* document_hash or a signature_from_oracle.
C16_SuccessOnlyWhenAllPassed ==
    /\ response.status = "success" =>
          /\ pc = "done"
          /\ SignerListed
          /\ SignatureGenuine
          /\ calls = <<"whitelist", "verify_signature", "analyze_legal_document">>
          /\ ai_result.kind = "dict"
          /\ Get(ai_result, "approved") = PyTrue
          /\ response.audit_result = ai_result
          /\ response.document_hash = <<"sha256", body.signature.signed.body>>
          /\ response.document_hash = <<"sha256", Utf8(body.document_content)>>
          /\ response.signature_from_oracle = "simulated_signature_0x123"
          /\ KeyConfigured(api_key) => FirstCharactersSubmitted
          /\ ~KeyConfigured(api_key) => HasBothKeywords(body.document_content)
    /\ response.status # "success" =>
          /\ response.document_hash = NoHash
          /\ response.signature_from_oracle = ""

\* a document written in capitals, signed by the whitelisted signer under
\* the lower-case form of its address, was approved by the rule
C16_Witness_SuccessAfterAllThree ==
    /\ pc = "done"
    /\ response.status = "success"
    /\ RuleAnalyzed
    /\ Lower(body.document_content) # body.document_content
    /\ body.wallet_address = Account0Lower
    /\ response.document_hash = Sha256Hex(Utf8(body.document_content))

\* C17: a request is answered success only when the verdict's approved is
\* the boolean true itself; a verdict whose approved is absent, or is a
\* value other than the boolean true (the string "true", the number 1), is
\* answered rejected, with no document_hash and no signature_from_oracle.
C17_OnlyBooleanTrue ==
    /\ response.status = "success" =>
          /\ ai_result.kind = "dict"
          /\ HasKey(ai_result, "approved")
          /\ Get(ai_result, "approved") = PyTrue
    /\ (/\ pc = "done"
        /\ Analyzed
        /\ ai_result.kind = "dict"
        /\ ~HasKey(ai_result, "approved") \/ Get(ai_result, "approved") # PyTrue) =>
          /\ response.status_code = 200
          /\ response.status = "rejected"
          /\ response.keys = {"status", "audit_result"}
          /\ response.document_hash = NoHash
          /\ response.signature_from_oracle = ""

\* the backend answered approved: 1 and the request was rejected
C17_Witness_NumberOneRejected ==
    /\ pc = "done"
    /\ AiAnalyzed
    /\ HasKey(ai_result, "approved")
    /\ Get(ai_result, "approved") = "1"
    /\ response.status = "rejected"
    /\ response.document_hash = NoHash

\* the backend answered approved: "true" and the request was rejected
C17_Witness_StringTrueRejected ==
    /\ pc = "done"
    /\ AiAnalyzed
    /\ Get(ai_result, "approved") = "'true'"
    /\ response.status = "rejected"

\* the backend answered nothing, the verdict has no approved, and the
\* request was rejected
C17_Witness_MissingRejected ==
    /\ pc = "done"
    /\ AiAnalyzed
    /\ ai_result.kind = "dict"
    /\ ~HasKey(ai_result, "approved")
    /\ response.status = "rejected"

====
